---- MODULE Spec2Model ----
(***************************************************************************)
(* Interest Rate Monitor dashboard: the rolling-correlation engine of the  *)
(* charts module (RateCharts), the chart instances and page elements it    *)
(* drives, and the forecast chart of the application module (App).         *)
(*                                                                         *)
(* Numbers.  Rates are modelled as small integers; on them the double      *)
(* arithmetic of the source (sums, products, differences) is exact.  A     *)
(* number is kept as the triple (num, den, rad) that denotes the real      *)
(* number num / (den * sqrt(rad)), den > 0, rad > 0: a decimal p/q is      *)
(* (p, q, 1) and the coefficient numerator / Math.sqrt(product) is         *)
(* (numerator, 1, product).  Comparisons with the thresholds 0.7 and 0.3   *)
(* are then exact integer comparisons.  JavaScript's null is Null.         *)
(***************************************************************************)
EXTENDS Integers, Sequences, FiniteSets, TLC

VARIABLES
    input,            \* the arguments of one call of a pure function of the engine
    call,             \* the completion of that call: none yet, or how it ended
    rateChart,        \* RateCharts: handle of the rate chart, 0 is null
    spreadChart,      \* RateCharts: handle of the spread chart, 0 is null
    correlationChart, \* RateCharts: handle of the correlation chart, 0 is null
    forecastChart,    \* App: handle of the forecast chart, 0 is null
    charts,           \* the Chart instances constructed so far on each canvas
    dom,              \* the page elements the two modules write
    pending,          \* loadCharts calls whose fetch has not settled
    started,          \* number of loadCharts calls made
    fpending,         \* loadForecast calls whose fetch has not settled
    fstarted,         \* number of loadForecast calls made
    timers,           \* App: analysisTimer, newsTimer and the intervals that are set
    loads,            \* App: loadAnalysis and loadNews calls whose fetch has not settled
    clicks,           \* App: runs of the refresh button's click handler
    chat,             \* App: the chat widget's listeners and requests
    last              \* the step taken last: its operation and inputs

engineVars == <<input, call>>

appVars == <<timers, loads, clicks, chat>>

pageVars ==
    <<rateChart, spreadChart, correlationChart, forecastChart, charts, dom,
      pending, started, fpending, fstarted, timers, loads, clicks, chat, last>>

vars ==
    <<input, call, rateChart, spreadChart, correlationChart, forecastChart, charts,
      dom, pending, started, fpending, fstarted, timers, loads, clicks, chat, last>>

----------------------------------------------------------------------------
(* Bounds of the inputs drawn for the engine's functions                   *)

MaxObs == 4          \* longest observation series handed to the engine
MaxWindow == 3       \* largest window argument
MaxLen == 3          \* longest sequence handed to calculateCorrelation
MaxExtra == 2        \* rows a fetched series may have beyond the window
MaxRefresh == 3      \* loadCharts calls in one behaviour
MaxForecast == 2     \* loadForecast calls in one behaviour
MaxInit == 2         \* App.init calls in one behaviour
MaxLoad == 2         \* loadAnalysis calls, and loadNews calls, in one behaviour
MaxRuns == 2         \* runs of the refresh button's click handler in one behaviour
MaxChat == 2         \* chat messages sent in one behaviour
MaxText == 2         \* characters typed into the chat input

\* const CORRELATION_WINDOW = 20
CORRELATION_WINDOW == 20

UsRateValues == {0, 1, 2}
KrRateValues == {0, 3}
XYValues == {-1, 0, 1, 2}

----------------------------------------------------------------------------
(* Values                                                                  *)

Null == [kind |-> "null"]

Num(n, d, r) == [kind |-> "num", num |-> n, den |-> d, rad |-> r]

Decimal(p, q) == Num(p, q, 1)

Zero == Decimal(0, 1)

RECURSIVE GeFrac(_, _, _, _)
\* a/b >= c/d for a, c >= 0 and b, d > 0, by comparing the integer parts and then
\* the reciprocals of the fractional parts: no product of the four is formed
GeFrac(a, b, c, d) ==
    IF a \div b # c \div d THEN a \div b > c \div d
    ELSE IF c % d = 0 THEN TRUE
    ELSE IF a % b = 0 THEN FALSE
    ELSE GeFrac(d, c % d, b, a % b)

\* v >= p/q for a number v and a positive decimal p/q
GreaterEq(v, p, q) ==
    /\ v.num >= 0
    /\ IF v.rad = 1 THEN q * v.num >= p * v.den
       ELSE GeFrac(v.num * v.num, v.den * v.den * v.rad, p * p, q * q)

\* v > p/q for a number v and a positive decimal p/q
Greater(v, p, q) ==
    /\ v.num > 0
    /\ IF v.rad = 1 THEN q * v.num > p * v.den
       ELSE q * q * v.num * v.num > p * p * v.den * v.den * v.rad

\* COLORS: the palette entries the charts read
COLORS ==
    [coupling |-> "#34A853", weak |-> "#FBBC04", decoupling |-> "#EA4335",
     spreadPositive |-> "#34A853", spreadNegative |-> "#EA4335"]

----------------------------------------------------------------------------
(* calculateCorrelation: Pearson coefficient of two arrays                 *)

RECURSIVE SumTo(_, _)
\* x.reduce((a, b) => a + b, 0) over the first k elements
SumTo(x, k) == IF k = 0 THEN 0 ELSE SumTo(x, k - 1) + x[k]

RECURSIVE SumProdTo(_, _, _)
\* x.reduce((total, xi, i) => total + xi * y[i], 0) over the first k elements
SumProdTo(x, y, k) == IF k = 0 THEN 0 ELSE SumProdTo(x, y, k - 1) + x[k] * y[k]

\* the plausible slip the specification warns against: 0 as a stand-in
calculateCorrelationZeroStandIn(x, y) ==
    LET n == Len(x) IN
    IF n # Len(y) \/ n = 0 THEN Zero
    ELSE LET sumX == SumTo(x, n)
             sumY == SumTo(y, n)
             numerator == n * SumProdTo(x, y, n) - sumX * sumY
             den2 == (n * SumProdTo(x, x, n) - sumX * sumX)
                       * (n * SumProdTo(y, y, n) - sumY * sumY)
         IN  IF den2 = 0 THEN Zero ELSE Num(numerator, 1, den2)

\* a slip in the guard: only an x longer than y is turned away
calculateCorrelationLooseGuard(x, y) ==
    LET n == Len(x) IN
    IF n > Len(y) \/ n = 0 THEN Null
    ELSE LET sumX == SumTo(x, n)
             sumY == SumTo(y, n)
             numerator == n * SumProdTo(x, y, n) - sumX * sumY
             den2 == (n * SumProdTo(x, x, n) - sumX * sumX)
                       * (n * SumProdTo(y, y, n) - sumY * sumY)
         IN  IF den2 = 0 THEN Null ELSE Num(numerator, 1, den2)

\* a slip in the denominator: the variance of x taken for both factors
calculateCorrelationOneSided(x, y) ==
    LET n == Len(x) IN
    IF n # Len(y) \/ n = 0 THEN Null
    ELSE LET sumX == SumTo(x, n)
             sumY == SumTo(y, n)
             numerator == n * SumProdTo(x, y, n) - sumX * sumY
             den2 == (n * SumProdTo(x, x, n) - sumX * sumX)
                       * (n * SumProdTo(x, x, n) - sumX * sumX)
         IN  IF den2 = 0 THEN Null ELSE Num(numerator, 1, den2)

\* a slip in the numerator: n - 1 for n
calculateCorrelationShortCount(x, y) ==
    LET n == Len(x) IN
    IF n # Len(y) \/ n = 0 THEN Null
    ELSE LET sumX == SumTo(x, n)
             sumY == SumTo(y, n)
             numerator == (n - 1) * SumProdTo(x, y, n) - sumX * sumY
             den2 == (n * SumProdTo(x, x, n) - sumX * sumX)
                       * (n * SumProdTo(y, y, n) - sumY * sumY)
         IN  IF den2 = 0 THEN Null ELSE Num(numerator, 1, den2)

\* a slip in the numerator: its magnitude, the sign of the association lost
calculateCorrelationUnsigned(x, y) ==
    LET n == Len(x) IN
    IF n # Len(y) \/ n = 0 THEN Null
    ELSE LET sumX == SumTo(x, n)
             sumY == SumTo(y, n)
             numerator == n * SumProdTo(x, y, n) - sumX * sumY
             den2 == (n * SumProdTo(x, x, n) - sumX * sumX)
                       * (n * SumProdTo(y, y, n) - sumY * sumY)
         IN  IF den2 = 0 THEN Null
             ELSE Num(IF numerator < 0 THEN -numerator ELSE numerator, 1, den2)

\* a slip in the quotient: the covariance numerator / n^2, not the coefficient
calculateCorrelationCovariance(x, y) ==
    LET n == Len(x) IN
    IF n # Len(y) \/ n = 0 THEN Null
    ELSE LET sumX == SumTo(x, n)
             sumY == SumTo(y, n)
             numerator == n * SumProdTo(x, y, n) - sumX * sumY
             den2 == (n * SumProdTo(x, x, n) - sumX * sumX)
                       * (n * SumProdTo(y, y, n) - sumY * sumY)
         IN  IF den2 = 0 THEN Null ELSE Num(numerator, n * n, 1)

calculateCorrelation(x, y) ==
    LET n == Len(x) IN
    IF n # Len(y) \/ n = 0 THEN Null
    ELSE LET sumX == SumTo(x, n)
             sumY == SumTo(y, n)
             sumXY == SumProdTo(x, y, n)
             sumX2 == SumProdTo(x, x, n)
             sumY2 == SumProdTo(y, y, n)
             numerator == n * sumXY - sumX * sumY
             \* denominator = Math.sqrt(den2); it is 0 exactly when den2 is
             den2 == (n * sumX2 - sumX * sumX) * (n * sumY2 - sumY * sumY)
         IN  IF den2 = 0 THEN Null ELSE Num(numerator, 1, den2)

----------------------------------------------------------------------------
(* calculateRollingCorrelation: one point per window of `window` rows      *)

\* a slip in the slice: its end taken as inclusive, so the row i is left out
windowDataShort(data, window, i) == SubSeq(data, i - window + 1, i - 1)

\* data.slice(i - window + 1, i + 1), with i the 1-based index of the last row
windowData(data, window, i) == SubSeq(data, i - window + 1, i)

usRates(rows) == [j \in 1..Len(rows) |-> rows[j].us_rate]

krRates(rows) == [j \in 1..Len(rows) |-> rows[j].kr_rate]

\* the two arrays calculateRollingCorrelation hands to calculateCorrelation
\* for the window that ends at row i
CorrelationArgs(data, window, i) ==
    [x |-> usRates(windowData(data, window, i)),
     y |-> krRates(windowData(data, window, i))]

\* a slip in the emitted key: the date of the window's first row
CorrelationPointFirstDate(data, window, i) ==
    LET correlation == calculateCorrelation(usRates(windowData(data, window, i)),
                                            krRates(windowData(data, window, i)))
    IN  [date |-> data[i - window + 1].date,
         correlation |-> IF correlation.kind # "null" THEN correlation ELSE Zero]

\* a slip at emission: the result is pushed as it is, absent or not
CorrelationPointUnsubstituted(data, window, i) ==
    [date |-> data[i].date,
     correlation |-> calculateCorrelation(usRates(windowData(data, window, i)),
                                          krRates(windowData(data, window, i)))]

\* the body of the loop: the object pushed for the window ending at row i
CorrelationPoint(data, window, i) ==
    LET correlation == calculateCorrelation(usRates(windowData(data, window, i)),
                                            krRates(windowData(data, window, i)))
    IN  [date |-> data[i].date,
         correlation |-> IF correlation.kind # "null" THEN correlation ELSE Zero]

RECURSIVE RollingFrom(_, _, _)
\* for (let i = window - 1; i < data.length; i++) correlations.push(...)
RollingFrom(data, window, i) ==
    IF i > Len(data) THEN <<>>
    ELSE <<CorrelationPoint(data, window, i)>> \o RollingFrom(data, window, i + 1)

\* a slip in the loop's start: i = window for i = window - 1
calculateRollingCorrelationLateStart(data, window) == RollingFrom(data, window, window + 1)

calculateRollingCorrelation(data, window) == RollingFrom(data, window, window)

----------------------------------------------------------------------------
(* getCorrelationStatus: the regime of a correlation value                 *)

\* labels are the romanised Korean strings of the source
StatusCoupling == [label |-> "keopeulling", class |-> "coupling", color |-> COLORS.coupling]

StatusWeak == [label |-> "yakhan sanggwan", class |-> "weak", color |-> COLORS.weak]

StatusDecoupling ==
    [label |-> "dikeopeulling", class |-> "decoupling", color |-> COLORS.decoupling]

\* a slip in the comparisons: > instead of >=
getCorrelationStatusStrict(correlation) ==
    IF Greater(correlation, 7, 10) THEN StatusCoupling
    ELSE IF Greater(correlation, 3, 10) THEN StatusWeak
    ELSE StatusDecoupling

\* a slip in the thresholds: percentages, 70 and 30, for fractions
getCorrelationStatusPercent(correlation) ==
    IF GreaterEq(correlation, 70, 1) THEN StatusCoupling
    ELSE IF GreaterEq(correlation, 30, 1) THEN StatusWeak
    ELSE StatusDecoupling

getCorrelationStatus(correlation) ==
    IF GreaterEq(correlation, 7, 10) THEN StatusCoupling
    ELSE IF GreaterEq(correlation, 3, 10) THEN StatusWeak
    ELSE StatusDecoupling

----------------------------------------------------------------------------
(* Chart instances.  charts[c] lists the instances constructed on canvas c *)
(* in the order of construction; a handle is the position of the instance  *)
(* in that list.  destroyCalls counts the destroy() calls the instance has *)
(* received, and an instance is live while it has received none.           *)

Released == [type |-> "released"]

\* a slip: the existing chart is not destroyed before the new one is built
destroyExistingSkipped(chs, handle) == chs

\* if (chart) { chart.destroy(); }
destroyExisting(chs, handle) ==
    IF handle # 0
    THEN [chs EXCEPT ![handle].destroyCalls = @ + 1, ![handle].config = Released]
    ELSE chs

\* new Chart(ctx, config)
newChart(chs, config) == Append(chs, [destroyCalls |-> 0, config |-> config])

dates(data) == [i \in 1..Len(data) |-> data[i].date]

spreads(data) == [i \in 1..Len(data) |-> data[i].spread]

\* loading.classList.add('hidden')
hideLoading(s, elementId) == [s EXCEPT !.dom[elementId].hidden = TRUE]

\* loading.classList.remove('hidden')
showLoading(s, elementId) == [s EXCEPT !.dom[elementId].hidden = FALSE]

initRateChart(s, data) ==
    LET destroyed == destroyExisting(s.charts.rateChart, s.rateChart)
        config == [type |-> "line", labels |-> dates(data),
                   usRates |-> usRates(data), krRates |-> krRates(data)]
        created == newChart(destroyed, config)
    IN  hideLoading([s EXCEPT !.charts.rateChart = created, !.rateChart = Len(created)],
                    "rateChartLoading")

initSpreadChart(s, data) ==
    LET destroyed == destroyExisting(s.charts.spreadChart, s.spreadChart)
        backgroundColors ==
            [i \in 1..Len(data) |->
                IF data[i].spread >= 0 THEN COLORS.spreadPositive
                ELSE COLORS.spreadNegative]
        config == [type |-> "bar", labels |-> dates(data), spreads |-> spreads(data),
                   backgroundColor |-> backgroundColors]
        created == newChart(destroyed, config)
    IN  hideLoading([s EXCEPT !.charts.spreadChart = created,
                              !.spreadChart = Len(created)],
                    "spreadChartLoading")

\* a slip: the segment takes the colour of its earlier (left) endpoint
segmentBorderColorLeft(p0, p1) == getCorrelationStatus(p0).color

\* segment.borderColor: context.p1 is the later (right) endpoint of the segment
segmentBorderColor(p0, p1) == getCorrelationStatus(p1).color

\* what Chart.js draws from the dataset of the correlation chart: the scriptable
\* borderColor at every data index, segment.borderColor at every segment
correlationConfig(correlations) ==
    LET labels == [i \in 1..Len(correlations) |-> correlations[i].date]
        values == [i \in 1..Len(correlations) |-> correlations[i].correlation]
        borderColors == [i \in 1..Len(values) |-> getCorrelationStatus(values[i]).color]
    IN  [type |-> "line", labels |-> labels, values |-> values,
         borderColor |-> borderColors,
         segmentColor |-> [j \in 1..(Len(values) - 1) |->
                              segmentBorderColor(values[j], values[j + 1])]]

\* a slip at the badge: classList.add(status.class) for the className assignment,
\* so the classes of earlier calls stay on the element
updateCorrelationStatusAccumulating(s, correlations) ==
    IF Len(correlations) = 0 THEN s
    ELSE LET latest == correlations[Len(correlations)]
             status == getCorrelationStatus(latest.correlation)
         IN  [s EXCEPT
                !.dom.correlationValue =
                    [textContent |-> latest.correlation, color |-> status.color],
                !.dom.correlationBadge =
                    [textContent |-> status.label,
                     className |-> Append(s.dom.correlationBadge.className,
                                          status.class)]]

\* the element texts are kept as the values they render: toFixed(3) of the
\* coefficient is kept as the coefficient
updateCorrelationStatus(s, correlations) ==
    IF Len(correlations) = 0 THEN s
    ELSE LET latest == correlations[Len(correlations)]
             status == getCorrelationStatus(latest.correlation)
         IN  [s EXCEPT
                !.dom.correlationValue =
                    [textContent |-> latest.correlation, color |-> status.color],
                !.dom.correlationBadge =
                    [textContent |-> status.label,
                     className |-> <<"status-badge", status.class>>]]

initCorrelationChart(s, data) ==
    LET destroyed == destroyExisting(s.charts.correlationChart, s.correlationChart)
        correlations == calculateRollingCorrelation(data, CORRELATION_WINDOW)
    IN  IF Len(correlations) = 0
        THEN hideLoading([s EXCEPT !.charts.correlationChart = destroyed],
                         "correlationChartLoading")
        ELSE LET created == newChart(destroyed, correlationConfig(correlations))
             IN  hideLoading(
                     updateCorrelationStatus(
                         [s EXCEPT !.charts.correlationChart = created,
                                   !.correlationChart = Len(created)],
                         correlations),
                     "correlationChartLoading")

updateRateSummary(s, data) ==
    IF Len(data) = 0 THEN s
    ELSE LET latest == data[Len(data)]
         IN  [s EXCEPT
                !.dom.usRateValue = [textContent |-> latest.us_rate],
                !.dom.krRateValue = [textContent |-> latest.kr_rate],
                !.dom.spreadValue =
                    [textContent |-> latest.spread,
                     color |-> IF latest.spread >= 0 THEN COLORS.spreadPositive
                               ELSE COLORS.spreadNegative]]

\* a slip on the error path: the badge is put back to its placeholder
showChartErrorResetting(s, message) ==
    LET hidden == hideLoading(hideLoading(hideLoading(s, "rateChartLoading"),
                                          "spreadChartLoading"),
                              "correlationChartLoading")
    IN  [hidden EXCEPT !.dom.rateChartLoading =
                            [hidden |-> FALSE, innerHTML |-> message],
                       !.dom.correlationBadge =
                            [textContent |-> "--", className |-> <<"status-badge">>]]

showChartError(s, message) ==
    LET hidden == hideLoading(hideLoading(hideLoading(s, "rateChartLoading"),
                                          "spreadChartLoading"),
                              "correlationChartLoading")
    IN  [hidden EXCEPT !.dom.rateChartLoading =
                            [hidden |-> FALSE, innerHTML |-> message]]

\* the success branch of loadCharts, after the fetch has answered with rates
renderRates(s, rates) ==
    LET rendered == updateRateSummary(
                        initCorrelationChart(
                            initSpreadChart(initRateChart(s, rates), rates), rates),
                        rates)
    IN  [rendered EXCEPT !.dom.lastUpdate = [textContent |-> "Last updated"]]

\* an array value, as opposed to an absent (undefined or null) one
Array(items) == [kind |-> "array", items |-> items]

\* renderForecastChart: if (!ctx || !forecasts) return;
renderForecastChart(s, forecasts) ==
    IF forecasts.kind = "null" THEN s
    ELSE LET destroyed == destroyExisting(s.charts.forecastChart, s.forecastChart)
             items == forecasts.items
             config == [type |-> "line",
                        labels |-> [i \in 1..Len(items) |-> items[i].month],
                        usRates |-> usRates(items),
                        krRates |-> krRates(items)]
             created == newChart(destroyed, config)
         IN  [s EXCEPT !.charts.forecastChart = created,
                       !.forecastChart = Len(created)]

\* renderForecastTable: if (!tableBody || !forecasts) return;
renderForecastTable(s, forecasts) ==
    IF forecasts.kind = "null" THEN s
    ELSE [s EXCEPT !.dom.forecastTableBody =
            [i \in 1..Len(forecasts.items) |->
                LET f == forecasts.items[i]
                    spread == (f.kr_rate - f.us_rate) * 100
                IN  [month |-> f.month,
                     us_rate |-> f.us_rate,
                     kr_rate |-> f.kr_rate,
                     spread |-> spread,
                     spreadClass |-> IF spread >= 0 THEN "spread-positive"
                                     ELSE "spread-negative"]]]

\* the success branch of loadForecast
renderForecast(s, data) ==
    LET meta == [s EXCEPT !.dom.forecastSource = [textContent |-> data.source],
                          !.dom.forecastUpdated = [textContent |-> data.updated_at]]
    IN  hideLoading(renderForecastTable(renderForecastChart(meta, data.forecasts),
                                        data.forecasts),
                    "forecastChartLoading")

----------------------------------------------------------------------------
(* The state of the page.  The page template is not among the sources:     *)
(* every element the modules look up is taken to exist, a loading          *)
(* indicator starts visible and a text element starts with a placeholder.  *)

Placeholder == [textContent |-> "--"]

InitialDom ==
    [rateChartLoading |-> [hidden |-> FALSE, innerHTML |-> "spinner"],
     spreadChartLoading |-> [hidden |-> FALSE],
     correlationChartLoading |-> [hidden |-> FALSE],
     forecastChartLoading |-> [hidden |-> FALSE, innerHTML |-> "spinner"],
     correlationValue |-> Placeholder,
     correlationBadge |-> [textContent |-> "--", className |-> <<"status-badge">>],
     usRateValue |-> Placeholder,
     krRateValue |-> Placeholder,
     spreadValue |-> Placeholder,
     lastUpdate |-> Placeholder,
     forecastSource |-> Placeholder,
     forecastUpdated |-> Placeholder,
     forecastTableBody |-> <<>>,
     analysisContent |-> [innerHTML |-> "placeholder", error |-> FALSE],
     analysisTime |-> Placeholder,
     usNewsList |-> [innerHTML |-> "placeholder"],
     krNewsList |-> [innerHTML |-> "placeholder"],
     refreshAnalysis |-> [loading |-> FALSE, listeners |-> 0],
     chatInput |-> [value |-> <<>>, disabled |-> FALSE, listeners |-> 0],
     chatSend |-> [disabled |-> FALSE, listeners |-> 0],
     chatMessages |-> <<>>]

NoStep == [op |-> "none"]

PageInitial ==
    /\ rateChart = 0
    /\ spreadChart = 0
    /\ correlationChart = 0
    /\ forecastChart = 0
    /\ charts = [rateChart |-> <<>>, spreadChart |-> <<>>,
                 correlationChart |-> <<>>, forecastChart |-> <<>>]
    /\ dom = InitialDom
    /\ pending = {}
    /\ started = 0
    /\ fpending = {}
    /\ fstarted = 0
    /\ timers = [analysisTimer |-> 0, newsTimer |-> 0, set |-> {}, created |-> 0]
    /\ loads = [analysis |-> {}, news |-> {}, astarted |-> 0, nstarted |-> 0]
    /\ clicks = [runs |-> <<>>]
    /\ chat = [requests |-> {}, sent |-> 0, elements |-> 0]
    /\ last = NoStep

\* the module and page state as one value, for the functions that update it
State ==
    [rateChart |-> rateChart, spreadChart |-> spreadChart,
     correlationChart |-> correlationChart, forecastChart |-> forecastChart,
     charts |-> charts, dom |-> dom]

\* the module and page state becomes s
Becomes(s) ==
    /\ rateChart' = s.rateChart
    /\ spreadChart' = s.spreadChart
    /\ correlationChart' = s.correlationChart
    /\ forecastChart' = s.forecastChart
    /\ charts' = s.charts
    /\ dom' = s.dom

----------------------------------------------------------------------------
(* The engine's functions applied to inputs drawn from bounded sets        *)

Rows == [us_rate : UsRateValues, kr_rate : KrRateValues]

RowSeqs == UNION {[1..n -> Rows] : n \in 0..MaxObs}

\* the date of an observation is a day number, ascending and unique
WithDates(rows) ==
    [i \in 1..Len(rows) |->
        [date |-> 100 + i, us_rate |-> rows[i].us_rate, kr_rate |-> rows[i].kr_rate]]

XYSeqs == UNION {[1..n -> XYValues] : n \in 0..MaxLen}

\* tenths from -1.2 to 1.2, and the two values just below the thresholds
CorrelationValues ==
    {Decimal(t, 10) : t \in -12..12} \cup {Decimal(69999, 100000), Decimal(29999, 100000)}

\* series of one window of rows in which kr_rate equals us_rate: the rate is a
\* up to the row `knee` and b after it (constant when a = b or knee = 0)
IdenticalRows ==
    {[i \in 1..CORRELATION_WINDOW |->
        [us_rate |-> IF i <= knee THEN a ELSE b, kr_rate |-> IF i <= knee THEN a ELSE b]] :
        a \in 0..2, b \in 0..2, knee \in {0, 1, 10, 19}}

\* us_rate of row i in a strictly increasing series that skips one value after
\* the row `gap`
usClimb(gap, i) == IF i > gap THEN i ELSE i - 1

\* series of a window and five rows more in which us_rate increases strictly
\* and kr_rate = 2 * us_rate + c
LinearRows ==
    {[i \in 1..(CORRELATION_WINDOW + 5) |->
        [us_rate |-> usClimb(gap, i), kr_rate |-> 2 * usClimb(gap, i) + c]] :
        gap \in {0, 12, 25}, c \in {-1, 0, 3}}

RollingInputs ==
    {[op |-> "calculateRollingCorrelation", data |-> WithDates(rows), window |-> w] :
        rows \in RowSeqs, w \in 1..MaxWindow}
    \cup
    {[op |-> "calculateRollingCorrelation", data |-> WithDates(rows),
      window |-> CORRELATION_WINDOW] : rows \in IdenticalRows \cup LinearRows}

CorrelationInputs == {[op |-> "calculateCorrelation", x |-> x, y |-> y] : x, y \in XYSeqs}

StatusInputs == {[op |-> "getCorrelationStatus", correlation |-> c] : c \in CorrelationValues}

NotCalled == [outcome |-> "none"]

\* a call that runs to its return statement
Returned(v) == [outcome |-> "return", value |-> v]

EngineInit ==
    /\ input \in RollingInputs \cup CorrelationInputs \cup StatusInputs
    /\ call = NotCalled
    /\ PageInitial

\* a slip in the window: splice for slice, so the rows of the first window are
\* taken out of the caller's array
CallRollingCorrelationSplicing ==
    /\ input.op = "calculateRollingCorrelation"
    /\ call.outcome = "none"
    /\ call' = Returned(calculateRollingCorrelation(input.data, input.window))
    /\ input' = [input EXCEPT !.data =
                    IF Len(@) >= input.window
                    THEN SubSeq(@, input.window + 1, Len(@)) ELSE @]
    /\ UNCHANGED pageVars

CallRollingCorrelation ==
    /\ input.op = "calculateRollingCorrelation"
    /\ call.outcome = "none"
    /\ call' = Returned(calculateRollingCorrelation(input.data, input.window))
    /\ UNCHANGED <<input, pageVars>>

CallCorrelation ==
    /\ input.op = "calculateCorrelation"
    /\ call.outcome = "none"
    /\ call' = Returned(calculateCorrelation(input.x, input.y))
    /\ UNCHANGED <<input, pageVars>>

CallStatus ==
    /\ input.op = "getCorrelationStatus"
    /\ call.outcome = "none"
    /\ call' = Returned(getCorrelationStatus(input.correlation))
    /\ UNCHANGED <<input, pageVars>>

EngineNext == CallRollingCorrelation \/ CallCorrelation \/ CallStatus

EngineSpec == EngineInit /\ [][EngineNext]_vars

----------------------------------------------------------------------------
(* The page: refreshes of the rate charts and of the forecast              *)

\* rows of a fetched series: us_rate climbs one step every four days; kr_rate
\* follows it up to (head) or from (tail) the day `knee` and is `level` otherwise
usShape(i) == (i - 1) \div 4

krShape(shape, i) ==
    IF (shape.follow = "head") = (i <= shape.knee) THEN usShape(i) ELSE shape.level

Shapes ==
    {[follow |-> "head", knee |-> 99, level |-> 0],
     [follow |-> "head", knee |-> 0, level |-> 2],
     [follow |-> "head", knee |-> 18, level |-> 1],
     [follow |-> "tail", knee |-> 3, level |-> 5]}

RatesOf(n, shape) ==
    [i \in 1..n |->
        [date |-> 100 + i, us_rate |-> usShape(i), kr_rate |-> krShape(shape, i),
         spread |-> (krShape(shape, i) - usShape(i)) * 100]]

RatesLengths == {0} \cup ((CORRELATION_WINDOW - 1)..(CORRELATION_WINDOW + MaxExtra))

RatesInputs == {RatesOf(n, shape) : n \in RatesLengths, shape \in Shapes}

\* two series in which kr_rate follows us_rate throughout: one row short of a
\* window, and exactly one window
PlainRatesInputs ==
    {RatesOf(n, [follow |-> "head", knee |-> 99, level |-> 0]) :
        n \in {CORRELATION_WINDOW - 1, CORRELATION_WINDOW}}

ForecastsInputs ==
    {Null, Array(<<>>),
     Array(<<[month |-> 202601, us_rate |-> 4, kr_rate |-> 3],
             [month |-> 202602, us_rate |-> 3, kr_rate |-> 3]>>)}

ForecastInputs ==
    {[source |-> "consensus", updated_at |-> "2025-12-20", forecasts |-> f] :
        f \in ForecastsInputs}

Init ==
    /\ input = [op |-> "none"]
    /\ call = NotCalled
    /\ PageInitial

\* the start of loadCharts, up to its first await
LoadChartsBegins ==
    /\ started < MaxRefresh
    /\ started' = started + 1
    /\ pending' = pending \cup {started + 1}
    /\ Becomes(showLoading(showLoading(showLoading(State, "rateChartLoading"),
                                       "spreadChartLoading"),
                           "correlationChartLoading"))
    /\ UNCHANGED <<fpending, fstarted, engineVars, appVars>>

\* RateCharts.init, RateCharts.loadCharts, RateCharts.refresh: one function
loadCharts ==
    /\ LoadChartsBegins
    /\ last' = [op |-> "loadCharts", id |-> started + 1]

\* the Retry button that showChartError writes into the rate chart's indicator
clickRetry ==
    /\ dom.rateChartLoading.innerHTML # "spinner"
    /\ ~dom.rateChartLoading.hidden
    /\ LoadChartsBegins
    /\ last' = [op |-> "clickRetry", id |-> started + 1]

\* the rows answered are rendered on a live correlation chart that already
\* shows their correlation series
Rebinds(rates) ==
    /\ correlationChart # 0
    /\ charts.correlationChart[correlationChart].destroyCalls = 0
    /\ LET series == calculateRollingCorrelation(rates, CORRELATION_WINDOW)
           shown == charts.correlationChart[correlationChart].config
       IN  /\ Len(series) > 0
           /\ shown.labels = [i \in 1..Len(series) |-> series[i].date]
           /\ shown.values = [i \in 1..Len(series) |-> series[i].correlation]

\* the rest of loadCharts, from the answer of the fetch to the end
loadChartsSettles(id, inputs) ==
    /\ id \in pending
    /\ pending' = pending \ {id}
    /\ \/ \E rates \in inputs :
            /\ Becomes(renderRates(State, rates))
            /\ last' = [op |-> "loadChartsSettles", id |-> id, outcome |-> "success",
                        rows |-> Len(rates), rebound |-> Rebinds(rates)]
       \/ /\ Becomes(showChartError(State, "Failed to load chart data"))
          /\ last' = [op |-> "loadChartsSettles", id |-> id, outcome |-> "failure",
                      rows |-> 0, rebound |-> FALSE]
       \/ /\ Becomes(showChartError(State, "Network error loading charts"))
          /\ last' = [op |-> "loadChartsSettles", id |-> id, outcome |-> "rejected",
                      rows |-> 0, rebound |-> FALSE]
    /\ UNCHANGED <<started, fpending, fstarted, engineVars, appVars>>

\* the start of loadForecast, up to its first await
loadForecast ==
    /\ fstarted < MaxForecast
    /\ fstarted' = fstarted + 1
    /\ fpending' = fpending \cup {fstarted + 1}
    /\ last' = [op |-> "loadForecast", id |-> fstarted + 1]
    /\ UNCHANGED <<rateChart, spreadChart, correlationChart, forecastChart, charts,
                   dom, pending, started, engineVars, appVars>>

\* the rest of loadForecast, from the answer of the fetch to the end
loadForecastSettles(id) ==
    /\ id \in fpending
    /\ fpending' = fpending \ {id}
    /\ \/ \E data \in ForecastInputs :
            /\ Becomes(renderForecast(State, data))
            /\ last' = [op |-> "loadForecastSettles", id |-> id, outcome |-> "success"]
       \/ /\ Becomes(State)
          /\ last' = [op |-> "loadForecastSettles", id |-> id, outcome |-> "failure"]
       \/ /\ Becomes([State EXCEPT !.dom.forecastChartLoading.innerHTML = "error"])
          /\ last' = [op |-> "loadForecastSettles", id |-> id, outcome |-> "rejected"]
    /\ UNCHANGED <<pending, started, fstarted, engineVars, appVars>>

\* the charts module on its page
Next ==
    \/ loadCharts
    \/ clickRetry
    \/ \E id \in pending : loadChartsSettles(id, RatesInputs)

Spec == Init /\ [][Next]_vars

\* the charts module when its caller serialises the refreshes: no loadCharts
\* call is made while another one is in flight
SerialNext ==
    \/ pending = {} /\ loadCharts
    \/ pending = {} /\ clickRetry
    \/ \E id \in pending : loadChartsSettles(id, RatesInputs)

SerialSpec == Init /\ [][SerialNext]_vars

\* the charts module and the application module on one page
DashboardNext ==
    \/ loadCharts
    \/ clickRetry
    \/ \E id \in pending : loadChartsSettles(id, PlainRatesInputs)
    \/ loadForecast
    \/ \E id \in fpending : loadForecastSettles(id)

DashboardSpec == Init /\ [][DashboardNext]_vars

----------------------------------------------------------------------------
(* The application module: analysis, news, forecast, timers                *)

\* the state the application module reads and writes, as one value
AppState ==
    [dom |-> dom, loads |-> loads, timers |-> timers, clicks |-> clicks, chat |-> chat,
     fpending |-> fpending, fstarted |-> fstarted]

AppBecomes(s) ==
    /\ dom' = s.dom
    /\ loads' = s.loads
    /\ timers' = s.timers
    /\ clicks' = s.clicks
    /\ chat' = s.chat
    /\ fpending' = s.fpending
    /\ fstarted' = s.fstarted

\* loadAnalysis up to its first await: the skeleton is written and the GET is
\* issued; run is the click handler run that called it, 0 for any other caller
beginLoadAnalysis(s, run) ==
    [s EXCEPT !.dom.analysisContent.innerHTML = "skeleton",
              !.loads.astarted = @ + 1,
              !.loads.analysis = @ \cup {[id |-> s.loads.astarted + 1, run |-> run]}]

\* showAnalysisError: the message given is ignored, a fixed text is shown
showAnalysisError(s, message) ==
    [s EXCEPT !.dom.analysisContent = [innerHTML |-> "unavailable", error |-> TRUE]]

\* loadNews up to its first await
beginLoadNews(s) ==
    [s EXCEPT !.dom.usNewsList.innerHTML = "skeleton",
              !.dom.krNewsList.innerHTML = "skeleton",
              !.loads.nstarted = @ + 1,
              !.loads.news = @ \cup {s.loads.nstarted + 1}]

\* renderNewsColumn: cards, or the empty notice when the items are absent or none
renderNewsColumn(s, element, newsItems) ==
    [s EXCEPT !.dom[element].innerHTML =
        IF newsItems.kind = "null" THEN "empty"
        ELSE IF Len(newsItems.items) = 0 THEN "empty"
        ELSE "cards"]

\* showNewsError: a notice with a retry button that calls App.loadNews()
showNewsError(s, element) == [s EXCEPT !.dom[element].innerHTML = "error"]

\* loadForecast up to its first await: nothing is written to the page
beginLoadForecast(s) ==
    [s EXCEPT !.fstarted = @ + 1, !.fpending = @ \cup {s.fstarted + 1}]

\* setupEventListeners: one more anonymous click listener on the refresh button
setupEventListeners(s) == [s EXCEPT !.dom.refreshAnalysis.listeners = @ + 1]

\* startAutoRefresh: two intervals are set and their ids assigned to the handles
startAutoRefresh(s) ==
    [s EXCEPT !.timers.created = @ + 2,
              !.timers.analysisTimer = s.timers.created + 1,
              !.timers.newsTimer = s.timers.created + 2,
              !.timers.set = @ \cup {[id |-> s.timers.created + 1, callback |-> "loadAnalysis"],
                                     [id |-> s.timers.created + 2, callback |-> "loadNews"]}]

\* initChat: sendChatMessage is registered once on the send button however
\* often it is added, the anonymous keypress listener once more on every call
initChat(s) ==
    [s EXCEPT !.dom.chatSend.listeners = 1,
              !.dom.chatInput.listeners = @ + 1]

\* clearInterval(id), for the id of an interval that is set or not
clearInterval(s, id) ==
    [s EXCEPT !.timers.set = {t \in @ : t.id # id}]

\* destroy: clears the two intervals the handles refer to
destroy(s) ==
    LET cleared == IF s.timers.analysisTimer # 0
                   THEN clearInterval(s, s.timers.analysisTimer) ELSE s
    IN  IF cleared.timers.newsTimer # 0
        THEN clearInterval(cleared, cleared.timers.newsTimer) ELSE cleared

\* everything the application's steps leave alone
RateChartsUnchanged ==
    UNCHANGED <<rateChart, spreadChart, correlationChart, forecastChart, charts,
                pending, started, engineVars>>

\* App.init
init ==
    /\ timers.created < 2 * MaxInit
    /\ loads.astarted < MaxLoad
    /\ loads.nstarted < MaxLoad
    /\ fstarted < MaxForecast
    /\ AppBecomes(initChat(startAutoRefresh(setupEventListeners(
            beginLoadForecast(beginLoadNews(beginLoadAnalysis(AppState, 0)))))))
    /\ last' = [op |-> "init"]
    /\ RateChartsUnchanged

\* App.destroy
appDestroy ==
    /\ AppBecomes(destroy(AppState))
    /\ last' = [op |-> "destroy"]
    /\ RateChartsUnchanged

\* an interval that is set fires its callback
intervalFires(t) ==
    /\ t \in timers.set
    /\ \/ /\ t.callback = "loadAnalysis"
          /\ loads.astarted < MaxLoad
          /\ AppBecomes(beginLoadAnalysis(AppState, 0))
       \/ /\ t.callback = "loadNews"
          /\ loads.nstarted < MaxLoad
          /\ AppBecomes(beginLoadNews(AppState))
    /\ last' = [op |-> "intervalFires", id |-> t.id, callback |-> t.callback]
    /\ RateChartsUnchanged

\* App.loadNews, from a script or from the retry button of the error notice
loadNews ==
    /\ loads.nstarted < MaxLoad
    /\ AppBecomes(beginLoadNews(AppState))
    /\ last' = [op |-> "loadNews"]
    /\ RateChartsUnchanged

\* the finally block of the refresh button's click handler, for run number run;
\* run 0 stands for a loadAnalysis call that no click handler awaits
refreshFinally(s, run) ==
    IF run = 0 THEN s
    ELSE [s EXCEPT !.dom.refreshAnalysis.loading = FALSE,
                   !.clicks.runs[run].finished = TRUE]

\* the rest of a loadAnalysis call; the promise it returns never rejects, and
\* the click handler awaiting it, if any, goes on to its finally block
loadAnalysisSettles(l) ==
    /\ l \in loads.analysis
    /\ \/ /\ AppBecomes(refreshFinally([AppState EXCEPT
                  !.loads.analysis = @ \ {l},
                  !.dom.analysisContent = [innerHTML |-> "analysis", error |-> FALSE],
                  !.dom.analysisTime = [textContent |-> "Generated"]], l.run))
          /\ last' = [op |-> "loadAnalysisSettles", outcome |-> "success"]
       \/ /\ AppBecomes(refreshFinally(showAnalysisError(
                  [AppState EXCEPT !.loads.analysis = @ \ {l}],
                  "Failed to load analysis"), l.run))
          /\ last' = [op |-> "loadAnalysisSettles", outcome |-> "failure"]
       \/ /\ AppBecomes(refreshFinally(showAnalysisError(
                  [AppState EXCEPT !.loads.analysis = @ \ {l}], "Network error"), l.run))
          /\ last' = [op |-> "loadAnalysisSettles", outcome |-> "rejected"]
    /\ RateChartsUnchanged

\* the lists of news items an answer may carry for a country
NewsInputs == {Null, Array(<<>>), Array(<<"item">>)}

\* the rest of a loadNews call
loadNewsSettles(n) ==
    /\ n \in loads.news
    /\ \/ \E us \in NewsInputs, kr \in NewsInputs :
            /\ AppBecomes(renderNewsColumn(
                    renderNewsColumn([AppState EXCEPT !.loads.news = @ \ {n}],
                                     "usNewsList", us),
                    "krNewsList", kr))
            /\ last' = [op |-> "loadNewsSettles", outcome |-> "success"]
       \/ /\ AppBecomes(showNewsError(
                  showNewsError([AppState EXCEPT !.loads.news = @ \ {n}], "usNewsList"),
                  "krNewsList"))
          /\ last' = [op |-> "loadNewsSettles", outcome |-> "failure"]
       \/ /\ AppBecomes(showNewsError(
                  showNewsError([AppState EXCEPT !.loads.news = @ \ {n}], "usNewsList"),
                  "krNewsList"))
          /\ last' = [op |-> "loadNewsSettles", outcome |-> "rejected"]
    /\ RateChartsUnchanged

\* the application module: start-up, clean-up, intervals and loads
AppNext ==
    \/ init
    \/ appDestroy
    \/ \E t \in timers.set : intervalFires(t)
    \/ loadNews
    \/ \E l \in loads.analysis : loadAnalysisSettles(l)
    \/ \E n \in loads.news : loadNewsSettles(n)
    \/ \E id \in fpending : loadForecastSettles(id)

AppSpec == Init /\ [][AppNext]_vars

----------------------------------------------------------------------------
(* The refresh button of the analysis card                                  *)

\* one run of the click listener up to its first await: the button gets the
\* class 'loading' and the cache-clear POST is issued
refreshHandlerBegins(s) ==
    [s EXCEPT !.dom.refreshAnalysis.loading = TRUE,
              !.clicks.runs = Append(@, [post |-> "pending", get |-> FALSE,
                                         finished |-> FALSE])]

\* a click runs every registered listener, one after the other
RECURSIVE dispatchClick(_, _)
dispatchClick(s, listeners) ==
    IF listeners = 0 THEN s
    ELSE dispatchClick(refreshHandlerBegins(s), listeners - 1)

\* a slip in the handler: the analysis is loaded whatever became of the POST
refreshHandlerResumesAlways(s, run, outcome) ==
    beginLoadAnalysis([s EXCEPT !.clicks.runs[run].post = outcome,
                                !.clicks.runs[run].get = TRUE], run)

\* the handler after the awaited POST: a response of any status lets it call
\* loadAnalysis and await it, a rejection takes it to catch and finally
refreshHandlerResumes(s, run, outcome) ==
    IF outcome = "resolved"
    THEN beginLoadAnalysis([s EXCEPT !.clicks.runs[run].post = "resolved",
                                     !.clicks.runs[run].get = TRUE], run)
    ELSE refreshFinally([s EXCEPT !.clicks.runs[run].post = "rejected"], run)

\* the user clicks the refresh button; it is never disabled
clickRefresh ==
    /\ dom.refreshAnalysis.listeners >= 1
    /\ Len(clicks.runs) + dom.refreshAnalysis.listeners <= MaxRuns
    /\ AppBecomes(dispatchClick(AppState, dom.refreshAnalysis.listeners))
    /\ last' = [op |-> "clickRefresh"]
    /\ RateChartsUnchanged

\* the cache-clear POST of run number run settles
cacheClearSettles(run) ==
    /\ run \in 1..Len(clicks.runs)
    /\ clicks.runs[run].post = "pending"
    /\ \E outcome \in {"resolved", "rejected"} :
          /\ AppBecomes(refreshHandlerResumes(AppState, run, outcome))
          /\ last' = [op |-> "cacheClearSettles", run |-> run, outcome |-> outcome]
    /\ RateChartsUnchanged

\* the application with its refresh button
RefreshNext ==
    \/ init
    \/ clickRefresh
    \/ \E run \in 1..Len(clicks.runs) : cacheClearSettles(run)
    \/ \E l \in loads.analysis : loadAnalysisSettles(l)

RefreshSpec == Init /\ [][RefreshNext]_vars

----------------------------------------------------------------------------
(* The chat widget                                                          *)

\* what the user may type: texts of blanks and letters
Texts == UNION {[1..n -> {" ", "a"}] : n \in 0..MaxText}

RECURSIVE trimStart(_)
trimStart(t) ==
    IF t = <<>> THEN t
    ELSE IF Head(t) = " " THEN trimStart(Tail(t)) ELSE t

RECURSIVE trimEnd(_)
trimEnd(t) ==
    IF t = <<>> THEN t
    ELSE IF t[Len(t)] = " " THEN trimEnd(SubSeq(t, 1, Len(t) - 1)) ELSE t

\* String.prototype.trim
trim(t) == trimEnd(trimStart(t))

\* addChatMessage: a new element is appended to the message list
addChatMessage(s, content, sender, isLoading) ==
    [s EXCEPT !.chat.elements = @ + 1,
              !.dom.chatMessages = Append(@, [el |-> s.chat.elements + 1,
                                              sender |-> sender,
                                              content |-> content,
                                              loading |-> isLoading])]

\* a slip: the loading indicator is left in the list
removeElementSkipped(s, el) == s

\* Element.remove(), for an element that is in the list or not
removeElement(s, el) ==
    [s EXCEPT !.dom.chatMessages = SelectSeq(@, LAMBDA e : e.el # el)]

\* a slip: the text typed stays in the input after it was sent
clearInputSkipped(s) == s

\* chatInput.value = ''
clearInput(s) == [s EXCEPT !.dom.chatInput.value = <<>>]

\* sendChatMessage up to its await: returns at once on a blank message, else
\* disables the controls, appends the user's message, clears the input,
\* appends the loading indicator and issues the POST
sendChatMessage(s) ==
    LET message == trim(s.dom.chatInput.value)
    IN  IF message = <<>> THEN s
        ELSE LET disabled == [s EXCEPT !.dom.chatInput.disabled = TRUE,
                                       !.dom.chatSend.disabled = TRUE]
                 cleared == clearInput(addChatMessage(disabled, message, "user", FALSE))
                 loading == addChatMessage(cleared, <<>>, "bot", TRUE)
             IN  [loading EXCEPT
                     !.chat.sent = @ + 1,
                     !.chat.requests = @ \cup {[id |-> s.chat.sent + 1,
                                                loadingEl |-> loading.chat.elements]}]

\* how a chat request may end: a success envelope, an error envelope with or
\* without a message, a body that is JSON null, a rejected fetch or parse
ChatOutcomes == {"success", "failure", "failureNoError", "nullBody", "rejected"}

\* sendChatMessage after its await, up to finally: the loading indicator is
\* removed, then one reply is appended; reading result.status of a null body
\* throws after the indicator was removed, and catch removes it once more
chatReply(s, loadingEl, outcome) ==
    CASE outcome = "success" ->
            addChatMessage(removeElement(s, loadingEl), <<"response">>, "bot", FALSE)
      [] outcome = "failure" ->
            addChatMessage(removeElement(s, loadingEl), <<"error">>, "bot", FALSE)
      [] outcome = "failureNoError" ->
            addChatMessage(removeElement(s, loadingEl), <<"no response">>, "bot", FALSE)
      [] outcome = "nullBody" ->
            addChatMessage(removeElement(removeElement(s, loadingEl), loadingEl),
                           <<"network error">>, "bot", FALSE)
      [] outcome = "rejected" ->
            addChatMessage(removeElement(s, loadingEl), <<"network error">>, "bot", FALSE)

\* the finally block of sendChatMessage
sendChatFinally(s) ==
    [s EXCEPT !.dom.chatInput.disabled = FALSE, !.dom.chatSend.disabled = FALSE]

\* a keypress of Enter runs every registered keypress listener in turn
RECURSIVE dispatchEnter(_, _)
dispatchEnter(s, listeners) ==
    IF listeners = 0 THEN s
    ELSE dispatchEnter(sendChatMessage(s), listeners - 1)

\* App.initChat
appInitChat ==
    /\ dom.chatInput.listeners < MaxInit
    /\ AppBecomes(initChat(AppState))
    /\ last' = [op |-> "initChat"]
    /\ RateChartsUnchanged

\* the user edits the text of the input, which a disabled input does not allow
typeMessage(t) ==
    /\ ~dom.chatInput.disabled
    /\ dom.chatInput.value # t
    /\ AppBecomes([AppState EXCEPT !.dom.chatInput.value = t])
    /\ last' = [op |-> "typeMessage"]
    /\ RateChartsUnchanged

\* a click event on the send button; the handler does not look at disabled
clickSend ==
    /\ dom.chatSend.listeners >= 1
    /\ chat.sent < MaxChat
    /\ AppBecomes(sendChatMessage(AppState))
    /\ last' = [op |-> "clickSend", message |-> trim(dom.chatInput.value)]
    /\ RateChartsUnchanged

\* a keypress of Enter, without Shift, on the input
pressEnter ==
    /\ dom.chatInput.listeners >= 1
    /\ chat.sent < MaxChat
    /\ AppBecomes(dispatchEnter(AppState, dom.chatInput.listeners))
    /\ last' = [op |-> "pressEnter", message |-> trim(dom.chatInput.value)]
    /\ RateChartsUnchanged

\* the POST of a chat request settles
chatSettles(req) ==
    /\ req \in chat.requests
    /\ \E outcome \in ChatOutcomes :
          /\ AppBecomes(sendChatFinally(chatReply(
                  [AppState EXCEPT !.chat.requests = @ \ {req}], req.loadingEl, outcome)))
          /\ last' = [op |-> "chatSettles", outcome |-> outcome]
    /\ RateChartsUnchanged

ChatNext ==
    \/ appInitChat
    \/ \E t \in Texts : typeMessage(t)
    \/ clickSend
    \/ pressEnter
    \/ \E req \in chat.requests : chatSettles(req)

ChatSpec == Init /\ [][ChatNext]_vars

----------------------------------------------------------------------------
(* Properties of the engine, under EngineSpec                              *)

Max(a, b) == IF a >= b THEN a ELSE b

RollingReturned == input.op = "calculateRollingCorrelation" /\ call.outcome # "none"

CorrelationReturned == input.op = "calculateCorrelation" /\ call.outcome # "none"

StatusReturned == input.op = "getCorrelationStatus" /\ call.outcome # "none"

\* every element of the sequence equals the first (zero variance)
AllEqual(x) == \A i \in 1..Len(x) : x[i] = x[1]

\* C1: calculateRollingCorrelation(obs, window), window > 0, returns normally
\* with exactly max(0, len(obs) - window + 1) points, and its k-th point carries
\* the date of the last observation of the k-th window.
C1_RollingCountAndDates ==
    RollingReturned =>
        /\ call.outcome = "return"
        /\ Len(call.value) = Max(0, Len(input.data) - input.window + 1)
        /\ \A k \in 1..Len(call.value) :
              call.value[k].date = input.data[k + input.window - 1].date

\* a call with a window of at least two rows that emitted several points
C1_Witness ==
    /\ RollingReturned
    /\ input.window >= 2
    /\ Len(call.value) >= 2

\* C2: getCorrelationStatus maps every value to exactly one regime by the first
\* matching threshold: >= 0.7 coupling, >= 0.3 weak, anything else decoupling;
\* 0.7 and 0.3 themselves fall in the upper regime, 0.69999 and 0.29999 in the
\* lower one, -1 is decoupling.
C2_StatusByThresholds ==
    StatusReturned =>
        LET c == input.correlation
            status == call.value
        IN  /\ call.outcome = "return"
            /\ status \in {StatusCoupling, StatusWeak, StatusDecoupling}
            /\ (10 * c.num >= 7 * c.den) => status.class = "coupling"
            /\ (10 * c.num >= 3 * c.den /\ 10 * c.num < 7 * c.den)
                   => status.class = "weak"
            /\ (10 * c.num < 3 * c.den) => status.class = "decoupling"
            /\ (c = Decimal(7, 10)) => status = StatusCoupling
            /\ (c = Decimal(69999, 100000)) => status = StatusWeak
            /\ (c = Decimal(3, 10)) => status = StatusWeak
            /\ (c = Decimal(29999, 100000)) => status = StatusDecoupling
            /\ (c = Decimal(-10, 10)) => status = StatusDecoupling

\* the value 0.7 itself, classified coupling
C2_Witness ==
    /\ StatusReturned
    /\ input.correlation = Decimal(7, 10)
    /\ call.value = StatusCoupling

C10_MismatchFailsHard ==
    (CorrelationReturned /\ Len(input.x) # Len(input.y)) => call.outcome = "throw"

\* C10, amended: a call with series of different lengths returns normally, and
\* the value returned by the length check is null.
C10_MismatchReturnsNull ==
    (CorrelationReturned /\ Len(input.x) # Len(input.y)) =>
        /\ call.outcome = "return"
        /\ call.value.kind = "null"

\* two non-constant series, the second longer than the first
C10_Witness ==
    /\ CorrelationReturned
    /\ Len(input.x) >= 2
    /\ Len(input.y) > Len(input.x)
    /\ ~AllEqual(input.x)
    /\ ~AllEqual(SubSeq(input.y, 1, Len(input.x)))
    /\ call.outcome = "return"

\* the number v is 1: a positive numerator equal to the denominator
IsOne(v) == v.kind = "num" /\ v.num > 0 /\ v.num * v.num = v.den * v.den * v.rad

\* the number v is -1
IsMinusOne(v) == v.kind = "num" /\ v.num < 0 /\ v.num * v.num = v.den * v.den * v.rad

Negated(x) == [i \in 1..Len(x) |-> -x[i]]

\* C11: calculateCorrelation(xs, ys) equals calculateCorrelation(ys, xs) for all
\* sequences, the absent results included.
C11_Symmetric ==
    CorrelationReturned =>
        /\ call.outcome = "return"
        /\ call.value = calculateCorrelation(input.y, input.x)

\* two different non-constant series of one length, with a coefficient that is
\* neither absent nor zero
C11_Witness ==
    /\ CorrelationReturned
    /\ Len(input.x) = Len(input.y)
    /\ input.x # input.y
    /\ call.value.kind = "num"
    /\ call.value.num # 0
    /\ call.value.num * call.value.num # call.value.rad

\* C12: for every xs of length >= 2 that is not constant,
\* calculateCorrelation(xs, xs) returns 1.
C12_IdenticalIsOne ==
    (CorrelationReturned /\ input.x = input.y /\ Len(input.x) >= 2
        /\ ~AllEqual(input.x)) => IsOne(call.value)

\* a non-constant series of three values correlated with itself
C12_Witness ==
    /\ CorrelationReturned
    /\ input.x = input.y
    /\ Len(input.x) = 3
    /\ ~AllEqual(input.x)
    /\ IsOne(call.value)

ScenarioAReturned ==
    /\ RollingReturned
    /\ input.window = CORRELATION_WINDOW
    /\ Len(input.data) = CORRELATION_WINDOW
    /\ \A i \in 1..Len(input.data) : input.data[i].kr_rate = input.data[i].us_rate

ScenarioBReturned ==
    /\ RollingReturned
    /\ input.window = CORRELATION_WINDOW
    /\ Len(input.data) = CORRELATION_WINDOW + 5
    /\ \A i \in 2..Len(input.data) : input.data[i].us_rate > input.data[i - 1].us_rate
    /\ \E c \in -5..5 :
          \A i \in 1..Len(input.data) :
              input.data[i].kr_rate = 2 * input.data[i].us_rate + c

InUnitInterval(v) == v.kind = "num" /\ v.num * v.num <= v.den * v.den * v.rad

C18_EnginePure ==
    [][(/\ input.op \in {"calculateCorrelation", "calculateRollingCorrelation"}
        /\ call' # call)
       => /\ input' = input
          /\ pageVars' = pageVars]_vars

\* a returned call that emitted several points from rows whose rates are not in
\* ascending order, with the page as it was before the call
C18_Witness ==
    /\ RollingReturned
    /\ Len(call.value) >= 2
    /\ input.data[1].us_rate > input.data[2].us_rate
    /\ input.data[1].date < input.data[2].date
    /\ correlationChart = 0
    /\ charts.correlationChart = <<>>
    /\ dom = InitialDom

\* C22: for window > 0, every call calculateRollingCorrelation makes to
\* calculateCorrelation passes two arrays of exactly `window` values, the
\* us_rate and the kr_rate of the `window` consecutive rows that end at row i;
\* neither the length check nor the empty check of calculateCorrelation is
\* taken, and the point emitted for row i is made from that call's result.
C22_EqualLengthWindows ==
    (RollingReturned /\ input.window > 0) =>
        /\ Len(call.value) = Max(0, Len(input.data) - input.window + 1)
        /\ \A i \in input.window..Len(input.data) :
              LET args == CorrelationArgs(input.data, input.window, i)
                  result == calculateCorrelation(args.x, args.y)
              IN  /\ Len(args.x) = input.window
                  /\ Len(args.y) = input.window
                  /\ \A j \in 1..input.window :
                        /\ args.x[j] = input.data[i - input.window + j].us_rate
                        /\ args.y[j] = input.data[i - input.window + j].kr_rate
                  /\ ~(Len(args.x) # Len(args.y) \/ Len(args.x) = 0)
                  /\ call.value[i - input.window + 1].correlation
                        = IF result.kind = "null" THEN Zero ELSE result

\* a call with a window of three rows on a series of four rows: two calls of
\* calculateCorrelation, on rows 1..3 and on rows 2..4
C22_Witness ==
    /\ RollingReturned
    /\ input.window = 3
    /\ Len(input.data) = 4
    /\ Len(call.value) = 2
    /\ CorrelationArgs(input.data, 3, 3) # CorrelationArgs(input.data, 3, 4)

----------------------------------------------------------------------------
(* Properties of the page, under Spec, SerialSpec and DashboardSpec        *)

\* the instances on canvas c that have not been destroyed
LiveCharts(c) == {i \in 1..Len(charts[c]) : charts[c][i].destroyCalls = 0}

\* the correlation handle refers to an instance that has not been destroyed
CorrelationChartLive ==
    /\ correlationChart # 0
    /\ charts.correlationChart[correlationChart].destroyCalls = 0

\* the step just taken is a refresh that rendered a series shorter than a window
EmptySeriesRendered ==
    /\ last.op = "loadChartsSettles"
    /\ last.outcome = "success"
    /\ last.rows < CORRELATION_WINDOW

\* the regime class the badge shows, once updateCorrelationStatus has written it
BadgeShowsRegime == Len(dom.correlationBadge.className) = 2

BadgeColor == COLORS[dom.correlationBadge.className[2]]

\* C3, as claimed: a refresh whose correlation series is empty constructs no
\* correlation chart and leaves the earlier one live and the badge as they were.
C3_EmptySeriesLeavesChartAndBadge ==
    [][EmptySeriesRendered' =>
          /\ Len(charts'.correlationChart) = Len(charts.correlationChart)
          /\ CorrelationChartLive => CorrelationChartLive'
          /\ dom'.correlationBadge = dom.correlationBadge
          /\ dom'.correlationValue = dom.correlationValue]_vars

\* C4: on each of the four canvases at most one constructed chart instance is
\* live in every reachable state.
C4_AtMostOneLiveChart == \A c \in DOMAIN charts : Cardinality(LiveCharts(c)) <= 1

\* every canvas has had a second instance constructed on it
C4_Witness ==
    \A c \in DOMAIN charts : Len(charts[c]) >= 2 /\ Cardinality(LiveCharts(c)) = 1

\* C5, as claimed: whenever the badge shows a regime, a live correlation chart
\* is attached, and the colour of its last point and of its last segment are
\* the colour of the badge's regime.
C5_BadgeAgreesWithLiveChart ==
    BadgeShowsRegime =>
        /\ CorrelationChartLive
        /\ LET config == charts.correlationChart[correlationChart].config
               n == Len(config.values)
           IN  /\ config.borderColor[n] = BadgeColor
               /\ n >= 2 => config.segmentColor[n - 1] = BadgeColor

\* C6, as claimed: at most one loadCharts refresh is in flight at any time.
C6_OneRefreshInFlight == Cardinality(pending) <= 1

\* C7: in a rendered correlation chart the segment ending at point i has the
\* colour of getCorrelationStatus(value[i]), whatever value[i-1] is.
C7_SegmentColouredByRightEndpoint ==
    \A h \in LiveCharts("correlationChart") :
        LET config == charts.correlationChart[h].config
        IN  \A i \in 2..Len(config.values) :
                config.segmentColor[i - 1] = getCorrelationStatus(config.values[i]).color

\* a rendered chart with a segment whose two endpoints are in different regimes
C7_Witness ==
    \E h \in LiveCharts("correlationChart") :
        LET config == charts.correlationChart[h].config
        IN  \E i \in 2..Len(config.values) :
                getCorrelationStatus(config.values[i - 1])
                    # getCorrelationStatus(config.values[i])

\* C16: a call of initCorrelationChart whose correlation series is the one the
\* live chart already shows yields the same labels, point colours and segment
\* colours, and leaves the badge and the value beside it as they were.
C16_BindingIdempotent ==
    [][(/\ correlationChart' # correlationChart
        /\ CorrelationChartLive
        /\ CorrelationChartLive'
        /\ charts'.correlationChart[correlationChart'].config.labels
               = charts.correlationChart[correlationChart].config.labels
        /\ charts'.correlationChart[correlationChart'].config.values
               = charts.correlationChart[correlationChart].config.values)
       => /\ charts'.correlationChart[correlationChart'].config.borderColor
                = charts.correlationChart[correlationChart].config.borderColor
          /\ charts'.correlationChart[correlationChart'].config.segmentColor
                = charts.correlationChart[correlationChart].config.segmentColor
          /\ dom'.correlationBadge = dom.correlationBadge
          /\ dom'.correlationValue = dom.correlationValue]_vars

\* a refresh has just rendered, on a second chart instance, the series of
\* several points that the chart before it showed
C16_Witness ==
    /\ last.op = "loadChartsSettles"
    /\ last.outcome = "success"
    /\ last.rebound
    /\ CorrelationChartLive
    /\ Len(charts.correlationChart) >= 2
    /\ Len(charts.correlationChart[correlationChart].config.values) >= 2

\* the handle of canvas c refers to no instance or to one that is not destroyed
HandleLive(c) == State[c] = 0 \/ charts[c][State[c]].destroyCalls = 0

\* C19, as claimed: no chart instance receives destroy() a second time, and
\* when no refresh is in flight (the next one can start) no chart handle refers
\* to a destroyed instance.
C19_DestroyedAtMostOnce ==
    /\ \A c \in DOMAIN charts :
          \A i \in 1..Len(charts[c]) : charts[c][i].destroyCalls <= 1
    /\ pending = {} => \A c \in DOMAIN charts : HandleLive(c)

\* what the page shows: the configuration of the chart each handle refers to,
\* and the page elements
Rendering ==
    [rateChart |->
        IF rateChart = 0 THEN Released ELSE charts.rateChart[rateChart].config,
     spreadChart |->
        IF spreadChart = 0 THEN Released ELSE charts.spreadChart[spreadChart].config,
     correlationChart |->
        IF correlationChart = 0 THEN Released
        ELSE charts.correlationChart[correlationChart].config,
     dom |-> dom]

\* C20, as claimed: the response of a refresh that arrives after a refresh
\* started later has completed changes nothing of what the page shows.
C20_LateResponseKeepsNewerRendering ==
    [][\A id \in pending :
          (/\ pending' = pending \ {id}
           /\ \E newer \in (id + 1)..started : newer \notin pending)
          => Rendering' = Rendering]_vars

\* the loading indicators of the three rate charts
ChartIndicators == {"rateChartLoading", "spreadChartLoading", "correlationChartLoading"}

\* C21: a loadCharts refresh that fails (non-success envelope, rejected fetch or
\* unparsable body) leaves the chart instances, the chart handles, the badge
\* and every other page element as they were; only the loading indicators of
\* the charts change.
C21_FailedRefreshKeepsCharts ==
    [][(/\ last'.op = "loadChartsSettles"
        /\ pending' # pending
        /\ last'.outcome \in {"failure", "rejected"})
       => /\ charts' = charts
          /\ <<rateChart, spreadChart, correlationChart, forecastChart>>'
                = <<rateChart, spreadChart, correlationChart, forecastChart>>
          /\ \A e \in DOMAIN dom \ ChartIndicators : dom'[e] = dom[e]]_vars

\* a refresh has just failed on a page that shows a live correlation chart and
\* a regime on the badge, and the error message is displayed
C21_Witness ==
    /\ last.op = "loadChartsSettles"
    /\ last.outcome = "rejected"
    /\ CorrelationChartLive
    /\ BadgeShowsRegime
    /\ ~dom.rateChartLoading.hidden
    /\ dom.rateChartLoading.innerHTML = "Network error loading charts"

----------------------------------------------------------------------------
(* Properties of the application module, under AppSpec                     *)

\* C23, as claimed: the step in which the fetch of a loadAnalysis, loadNews,
\* loadForecast or loadCharts call settles leaves the surface of that call
\* with content or an error message, its loading placeholder or indicator no
\* longer displayed.
C23_SettledSurfaceResolved ==
    /\ last.op = "loadAnalysisSettles" =>
          dom.analysisContent.innerHTML \in {"analysis", "unavailable"}
    /\ last.op = "loadNewsSettles" =>
          /\ dom.usNewsList.innerHTML \in {"cards", "empty", "error"}
          /\ dom.krNewsList.innerHTML \in {"cards", "empty", "error"}
    /\ last.op = "loadForecastSettles" =>
          \/ dom.forecastChartLoading.hidden
          \/ dom.forecastChartLoading.innerHTML = "error"
    /\ last.op = "loadChartsSettles" =>
          /\ dom.rateChartLoading.hidden \/ dom.rateChartLoading.innerHTML # "spinner"
          /\ dom.spreadChartLoading.hidden
          /\ dom.correlationChartLoading.hidden

\* C26, as claimed: when App.destroy() has returned, none of the intervals set
\* by App.init() is still set.
C26_DestroyClearsIntervals == last.op = "destroy" => timers.set = {}


----------------------------------------------------------------------------
(* Properties of the refresh button, under RefreshSpec                     *)

\* run number r has not reached the end of its handler
RunInFlight(r) == ~clicks.runs[r].finished

\* C27: on a click of the refresh button the analysis GET is issued only after
\* the cache-clear POST of that click has completed, and not at all when the
\* POST rejects.
C27_GetAfterCacheClear ==
    [][/\ \A l \in loads.analysis' \ loads.analysis :
              l.run # 0 => /\ clicks.runs[l.run].post = "pending"
                           /\ clicks.runs'[l.run].post = "resolved"
       /\ \A r \in 1..Len(clicks.runs') :
              /\ clicks.runs'[r].get => clicks.runs'[r].post = "resolved"
              /\ clicks.runs'[r].post = "rejected" =>
                     /\ ~clicks.runs'[r].get
                     /\ \A l \in loads.analysis' : l.run # r]_vars

\* one click whose POST rejected and loaded nothing, one whose POST resolved
\* and whose analysis was then loaded
C27_Witness ==
    /\ Len(clicks.runs) = 2
    /\ \E r, q \in 1..2 :
          /\ clicks.runs[r].post = "rejected" /\ clicks.runs[r].finished
          /\ clicks.runs[q].post = "resolved" /\ clicks.runs[q].get
          /\ clicks.runs[q].finished

\* C28: the refresh button carries the class 'loading' whenever a refresh
\* started by a click is in flight, and no longer once all have finished, also
\* when clicks overlap.
C28_LoadingWhileInFlight ==
    dom.refreshAnalysis.loading <=> \E r \in 1..Len(clicks.runs) : RunInFlight(r)


----------------------------------------------------------------------------
(* Properties of the chat widget, under ChatSpec                            *)

\* C24: while a chat request is in flight the input and the send button are
\* disabled, both are enabled again when the request has finished, in every
\* outcome, and at most one chat request is in flight at any time.
C24_DisabledWhileInFlight ==
    /\ chat.requests # {} => dom.chatInput.disabled /\ dom.chatSend.disabled
    /\ last.op = "chatSettles" => ~dom.chatInput.disabled /\ ~dom.chatSend.disabled
    /\ Cardinality(chat.requests) <= 1

\* a second request, sent by Enter with the keypress listener registered
\* twice, after the first request ended
C24_Witness ==
    /\ chat.sent = 2
    /\ chat.requests # {}
    /\ dom.chatInput.listeners >= 2
    /\ last.op = "pressEnter"

\* every sent message is followed by its reply, or by the loading indicator
\* while its request is in flight
ChatWellFormed ==
    LET list == dom.chatMessages
    IN  /\ Len(list) = 2 * chat.sent
        /\ \A i \in 1..Len(list) :
              IF i % 2 = 1
              THEN /\ list[i].sender = "user"
                   /\ ~list[i].loading
                   /\ list[i].content # <<>>
              ELSE /\ list[i].sender = "bot"
                   /\ list[i].loading <=> (i = Len(list) /\ chat.requests # {})

SendTriggered == last'.op \in {"clickSend", "pressEnter"}

\* C25: a sendChatMessage with a non-blank message appends one user message
\* and, when its request ends, one bot reply after it, the loading indicator
\* gone from the list in every outcome; a blank message appends nothing, sends
\* no request and changes no state.
C25_OneMessageOneReply ==
    [][/\ ChatWellFormed'
       /\ (SendTriggered /\ last'.message # <<>>) =>
              /\ Len(dom'.chatMessages) = Len(dom.chatMessages) + 2
              /\ SubSeq(dom'.chatMessages, 1, Len(dom.chatMessages)) = dom.chatMessages
              /\ dom'.chatMessages[Len(dom.chatMessages) + 1].content = last'.message
              /\ Cardinality(chat'.requests) = Cardinality(chat.requests) + 1
       /\ (SendTriggered /\ last'.message = <<>>) =>
              UNCHANGED <<dom, chat, loads, timers, clicks>>
       /\ (last'.op = "chatSettles") =>
              LET n == Len(dom.chatMessages)
              IN  /\ Len(dom'.chatMessages) = n
                  /\ SubSeq(dom'.chatMessages, 1, n - 1) = SubSeq(dom.chatMessages, 1, n - 1)
                  /\ dom.chatMessages[n].loading
                  /\ \A i \in 1..n : ~dom'.chatMessages[i].loading
                  /\ dom'.chatMessages[n].content \in
                         {<<"response">>, <<"error">>, <<"no response">>,
                          <<"network error">>}]_vars

\* a first exchange ended with the network error text and a second message,
\* sent by a click, is awaiting its reply
C25_Witness ==
    /\ Len(dom.chatMessages) = 4
    /\ dom.chatMessages[2].content = <<"network error">>
    /\ dom.chatMessages[4].loading
    /\ last.op = "clickSend"
    /\ last.message # <<>>

====
